---- MODULE Spec2Model ----
(***************************************************************************)
(* Model of Simulation.calculateMassFlow (PV_DEMICE/main.py): the cohort   *)
(* loop that projects every installation-year generation through the      *)
(* simulated years, the module end-of-life cascade and the per-material    *)
(* mass-flow cascade.                                                      *)
(*                                                                         *)
(* Floating-point quantities are modelled as exact rationals <<n, d>> in   *)
(* lowest terms (d > 0); <<0, 0>> stands for NaN.  Tables (pandas frames)  *)
(* are functions from column name to column, a column is a function from   *)
(* the row index 0..NumYears-1 to a value, and a Python list is a function *)
(* from 0..len-1.                                                          *)
(***************************************************************************)
EXTENDS Integers, FiniteSets, Sequences, TLC

\* Number of rows (years) of the scenario and material tables.
NumYears == 3

Years == 0 .. (NumYears - 1)

(***************************************************************************)
(* Exact rational arithmetic standing for the float arithmetic of numpy.   *)
(***************************************************************************)
Abs(n) == IF n < 0 THEN -n ELSE n

RECURSIVE GCD(_, _)
GCD(a, b) == IF b = 0 THEN a ELSE GCD(b, a % b)

NaN == <<0, 0>>

IsNaN(r) == r[2] = 0

R(n, d) == LET g == GCD(Abs(n), d) IN <<n \div g, d \div g>>

RInt(n) == <<n, 1>>

Zero == <<0, 1>>

One == <<1, 1>>

RAdd(a, b) ==
    IF IsNaN(a) \/ IsNaN(b) THEN NaN
    ELSE LET g == GCD(a[2], b[2])
             l == (a[2] \div g) * b[2]
         IN  R(a[1] * (l \div a[2]) + b[1] * (l \div b[2]), l)

RNeg(a) == <<-a[1], a[2]>>

RSub(a, b) == RAdd(a, RNeg(b))

RMul(a, b) ==
    IF IsNaN(a) \/ IsNaN(b) THEN NaN
    ELSE LET g1 == GCD(Abs(a[1]), b[2])
             g2 == GCD(Abs(b[1]), a[2])
         IN  R((a[1] \div g1) * (b[1] \div g2), (a[2] \div g2) * (b[2] \div g1))

\* a / b for b # 0
RDiv(a, b) ==
    IF IsNaN(a) \/ IsNaN(b) THEN NaN
    ELSE IF b[1] < 0 THEN RMul(a, <<-b[2], -b[1]>>) ELSE RMul(a, <<b[2], b[1]>>)

\* a <= b; a comparison with NaN is false
RLeq(a, b) == ~IsNaN(a) /\ ~IsNaN(b) /\ a[1] * b[2] <= b[1] * a[2]

\* a < b; a comparison with NaN is false
RLt(a, b) == ~IsNaN(a) /\ ~IsNaN(b) /\ a[1] * b[2] < b[1] * a[2]

RECURSIVE RPow(_, _)
RPow(a, k) == IF k <= 0 THEN One ELSE RMul(a, RPow(a, k - 1))

\* rate * 0.01
Pct(r) == RMul(r, <<1, 100>>)

(***************************************************************************)
(* Python lists (zero-based).                                              *)
(***************************************************************************)
EmptyList == [i \in {} |-> Zero]

ListLen(l) == Cardinality(DOMAIN l)

ListAppend(l, v) ==
    [i \in 0 .. ListLen(l) |-> IF i < ListLen(l) THEN l[i] ELSE v]

RECURSIVE SumTo(_, _)
\* f[0] + ... + f[n]
SumTo(f, n) == IF n < 0 THEN Zero ELSE RAdd(SumTo(f, n - 1), f[n])

(***************************************************************************)
(* Frames.                                                                 *)
(***************************************************************************)
SetCol(tbl, name, col) ==
    [c \in (DOMAIN tbl) \cup {name} |-> IF c = name THEN col ELSE tbl[c]]

ConstCol(v) == [y \in Years |-> v]

ColAdd(col, lst) == [y \in Years |-> RAdd(col[y], lst[y])]

ListAdd(l1, l2) == [i \in DOMAIN l1 |-> RAdd(l1[i], l2[i])]

(***************************************************************************)
(* The CDF built by weibull_cdf from the parameters weibull_params fits to *)
(* the keypoints (t50, 0.50) and (t90, 0.90), evaluated at the integer     *)
(* ages, for the keypoint pairs the scenarios below use.  The values are   *)
(* those the source formulas yield in double precision, to within 1e-7:    *)
(* for (t50, t90) = (1, 3.321928) alpha = 1 and F(x) = 1 - 2^(-x); for     *)
(* (2, 2.02) alpha = 120.65, F(1) underflows to exactly 0.0, F(2) = 0.5    *)
(* and F(x) = 1.0 from x = 3 on.                                           *)
(***************************************************************************)
T90Exp == R(3321928, 1000000)

T90Steep == R(202, 100)

weibull_cdf(t50, t90, x) ==
    IF x = 0 THEN Zero
    ELSE IF t50 = RInt(1) /\ t90 = T90Exp THEN RSub(One, RPow(R(1, 2), x))
    ELSE IF t50 = RInt(2) /\ t90 = T90Steep
         THEN (IF x = 1 THEN Zero ELSE IF x = 2 THEN R(1, 2) ELSE One)
    ELSE NaN

xclip_unclipped(gen) == [y \in Years |-> Abs(y - gen)]

\* np.clip(df.index - generation, 0, np.inf)
xclip(gen) == [y \in Years |-> IF y - gen < 0 THEN 0 ELSE y - gen]

(***************************************************************************)
(* Input tables.  The scenario table and the table of material "glass" are *)
(* base tables with, together, at most two overrides, an override          *)
(* replacing some columns of one row or leaving one column out of the      *)
(* table; material "silicon" keeps its base rows.                          *)
(***************************************************************************)
irradiance_stc == RInt(1000)

ModuleColumns ==
    {"new_Installed_Capacity_[MW]", "mod_eff", "mod_reliability_t50",
     "mod_reliability_t90", "mod_lifetime", "mod_degradation",
     "mod_Repairing", "mod_Repowering", "mod_EOL_collection_eff",
     "mod_EOL_collected_recycled"}

BaseModuleRow ==
    [c \in ModuleColumns |->
        CASE c = "new_Installed_Capacity_[MW]" -> R(1, 5000)
          [] c = "mod_eff" -> RInt(20)
          [] c = "mod_reliability_t50" -> RInt(1)
          [] c = "mod_reliability_t90" -> T90Exp
          [] c = "mod_lifetime" -> RInt(1000)
          [] c = "mod_degradation" -> RInt(50)
          [] c = "mod_Repairing" -> Zero
          [] c = "mod_Repowering" -> R(1, 2)
          [] c = "mod_EOL_collection_eff" -> RInt(50)
          [] c = "mod_EOL_collected_recycled" -> RInt(50)]

ModuleOverrides ==
    {[k \in {"new_Installed_Capacity_[MW]"} |-> v] : v \in {Zero, NaN}}
    \cup {[k \in {"mod_eff"} |-> RInt(25)]}
    \cup {[k \in {"mod_reliability_t50", "mod_reliability_t90"} |->
             IF k = "mod_reliability_t50" THEN RInt(2) ELSE T90Steep]}
    \cup {[k \in {"mod_reliability_t50", "mod_reliability_t90"} |-> RInt(2)]}
    \cup {[k \in {"mod_lifetime"} |-> RInt(v)] : v \in {0, 1, 2}}
    \cup {[k \in {"mod_degradation"} |-> Zero]}
    \cup {[k \in {"mod_Repairing"} |-> v] : v \in {R(1, 2), One}}
    \cup {[k \in {"mod_Repowering"} |-> v] : v \in {Zero, One}}
    \cup {[k \in {"mod_EOL_collection_eff"} |-> RInt(v)] : v \in {100, 150}}
    \cup {[k \in {"mod_EOL_collected_recycled"} |-> Zero]}

MaterialNames == {"glass", "silicon"}

MaterialColumns ==
    {"mat_massperm2", "material_MFG_eff", "mat_EOL_collected_Recycled",
     "mat_EOL_Recycled_into_HQ", "mat_EOL_RecycledHQ_Reused4MFG",
     "mat_MFG_scrap_recycled", "mat_MFG_scrap_recycling_eff",
     "mat_MFG_scrap_Recycled_into_HQ",
     "mat_MFG_scrap_Recycled_into_HQ_Reused4MFG"}

BaseMaterialRow(m) ==
    [c \in MaterialColumns |->
        IF m = "glass"
        THEN (IF c = "mat_massperm2" THEN RInt(2) ELSE RInt(50))
        ELSE (CASE c = "mat_massperm2" -> RInt(1)
                [] c = "material_MFG_eff" -> RInt(100)
                [] c \in {"mat_EOL_collected_Recycled", "mat_EOL_Recycled_into_HQ",
                          "mat_EOL_RecycledHQ_Reused4MFG"} -> RInt(100)
                [] OTHER -> RInt(50))]

MaterialOverrides ==
    {[k \in {"mat_massperm2"} |-> RInt(v)] : v \in {0, 1}}
    \cup {[k \in {"material_MFG_eff"} |-> RInt(v)] : v \in {25, 100}}
    \cup {[k \in {c} |-> RInt(100)] :
             c \in MaterialColumns \ {"mat_massperm2", "material_MFG_eff"}}

\* columns a table can come without
AbsentModuleColumns == {"mod_eff", "mod_Repairing", "mod_Repowering"}

AbsentMaterialColumns == {"mat_MFG_scrap_recycled"}

\* an override of row y of table t ("module" or a material name), or with
\* y = NoRow the absence of a column from table t; NoOverride changes nothing
NoRow == -1

NoOverride == [tbl |-> "none", y |-> 0, o |-> [k \in {} |-> Zero]]

Overrides ==
    {NoOverride}
    \cup {[tbl |-> "module", y |-> y, o |-> o] : y \in Years, o \in ModuleOverrides}
    \cup {[tbl |-> "glass", y |-> y, o |-> o] : y \in Years, o \in MaterialOverrides}
    \cup {[tbl |-> "module", y |-> NoRow, o |-> [k \in {c} |-> NaN]] :
             c \in AbsentModuleColumns}
    \cup {[tbl |-> "glass", y |-> NoRow, o |-> [k \in {c} |-> NaN]] :
             c \in AbsentMaterialColumns}

Applies(ov, t, y, c) == ov.tbl = t /\ ov.y = y /\ c \in DOMAIN ov.o

Absent(ov, t, c) == ov.tbl = t /\ ov.y = NoRow /\ c \in DOMAIN ov.o

MakeTable(t, cols, base, o1, o2) ==
    [c \in {k \in cols : ~Absent(o1, t, k) /\ ~Absent(o2, t, k)} |->
        [y \in Years |->
            IF Applies(o2, t, y, c) THEN o2.o[c]
            ELSE IF Applies(o1, t, y, c) THEN o1.o[c]
            ELSE base[c]]]

\* how the call has ended: by no exception, or by the exception of the given
\* type whose message is the given name
NoError == [type |-> "none", name |-> ""]

KeyError(column) == [type |-> "KeyError", name |-> column]

ValueError == [type |-> "ValueError", name |-> "not enough values to unpack"]

(***************************************************************************)
(* State.                                                                  *)
(***************************************************************************)
VARIABLES
    data,                        \* self.scenario[scen].data
    material,                    \* material name -> materialdata
    pc,                          \* position in calculateMassFlow
    iterrows,                    \* the values df.iterrows() took at line 164
    generation, row,             \* the row loop of line 164
    cdf, age,                    \* lines 172, 186
    activearea, active, disposed_degradation,
    activeareacount, areadisposed_failure, areadisposed_degradation,
    areapowergen,
    Generation_Disposed_byYear, Generation_Active_byYear,
    Generation_Power_byYear,
    landfill_Collection, EOL_Recycled, EOL_NotRecycled_Landfilled,
    todo,                        \* materials the loop of line 292 has yet to visit
    error,                       \* the exception that ended the call, or "none"
    passed_in,                   \* the tables as they were when the call began
    calls,                       \* calls of calculateMassFlow begun so far
    first_call,                  \* the tables as they were when the latest call began
    tables_changed               \* a table was changed or replaced outside a call

vars == <<data, material, pc, iterrows, generation, row, cdf, age, activearea,
          active,
          disposed_degradation, activeareacount, areadisposed_failure,
          areadisposed_degradation, areapowergen, Generation_Disposed_byYear,
          Generation_Active_byYear, Generation_Power_byYear,
          landfill_Collection, EOL_Recycled, EOL_NotRecycled_Landfilled, todo,
          error, passed_in, calls, first_call, tables_changed>>

cohortLocals == <<row, cdf, age, activearea, active, disposed_degradation,
                  activeareacount, areadisposed_failure,
                  areadisposed_degradation, areapowergen>>

generationLists == <<Generation_Disposed_byYear, Generation_Active_byYear,
                     Generation_Power_byYear>>

eolFrames == <<landfill_Collection, EOL_Recycled, EOL_NotRecycled_Landfilled>>

callState == <<error, passed_in, calls, first_call, tables_changed>>

\* the state in which calculateMassFlow is called on the tables with the
\* overrides o1 and o2
InitWith(o1, o2) ==
        /\ data = MakeTable("module", ModuleColumns, BaseModuleRow, o1, o2)
        /\ material = [m \in MaterialNames |->
                          MakeTable(m, MaterialColumns, BaseMaterialRow(m), o1, o2)]
        /\ pc = "setup"
        /\ iterrows = EmptyList
        /\ generation = 0
        /\ row = EmptyList
        /\ cdf = EmptyList
        /\ age = 0
        /\ activearea = Zero
        /\ active = -1
        /\ disposed_degradation = Zero
        /\ activeareacount = EmptyList
        /\ areadisposed_failure = EmptyList
        /\ areadisposed_degradation = EmptyList
        /\ areapowergen = EmptyList
        /\ Generation_Disposed_byYear = EmptyList
        /\ Generation_Active_byYear = EmptyList
        /\ Generation_Power_byYear = EmptyList
        /\ landfill_Collection = EmptyList
        /\ EOL_Recycled = EmptyList
        /\ EOL_NotRecycled_Landfilled = EmptyList
        /\ todo = {}
        /\ error = NoError
        /\ passed_in = [data |-> data, material |-> material]
        /\ calls = 1
        /\ first_call = [data |-> data, material |-> material]
        /\ tables_changed = FALSE

Init == \E o1 \in Overrides, o2 \in Overrides : InitWith(o1, o2)

(***************************************************************************)
(* Lines 140-163: renaming, re-scaling, area, reset of the cumulative      *)
(* columns and of the per-generation lists.                                *)
(***************************************************************************)
AreaOf(capW, eff) ==
    LET a == RDiv(RDiv(capW, Pct(eff)), irradiance_stc)
    IN  IF IsNaN(a) THEN Zero ELSE a

Setup ==
    /\ pc = "setup"
    /\ "mod_eff" \in DOMAIN data
    /\ LET capW == [y \in Years |->
                      RMul(data["new_Installed_Capacity_[MW]"][y], RInt(1000000))]
           d1 == SetCol(data, "new_Installed_Capacity_[W]", capW)
           d2 == SetCol(d1, "t50", data["mod_reliability_t50"])
           d3 == SetCol(d2, "t90", data["mod_reliability_t90"])
           d4 == SetCol(d3, "Area",
                        [y \in Years |-> AreaOf(capW[y], data["mod_eff"][y])])
           d5 == SetCol(d4, "Cumulative_Area_disposedby_Failure", ConstCol(Zero))
           d6 == SetCol(d5, "Cumulative_Area_disposedby_Degradation", ConstCol(Zero))
           d7 == SetCol(d6, "Cumulative_Area_disposed", ConstCol(Zero))
           d8 == SetCol(d7, "Cumulative_Active_Area", ConstCol(Zero))
       IN  data' = SetCol(d8, "Cumulative_Power_[W]", ConstCol(Zero))
    /\ Generation_Disposed_byYear' = EmptyList
    /\ Generation_Active_byYear' = EmptyList
    /\ Generation_Power_byYear' = EmptyList
    /\ generation' = 0
    /\ pc' = "row"
    /\ UNCHANGED <<material, cohortLocals, eolFrames, todo>>
    /\ UNCHANGED <<callState, iterrows>>

\* lines 146-149 on a table without the column mod_eff: the three columns of
\* lines 146-148 are in the table when line 149 raises
SetupKeyError ==
    /\ pc = "setup"
    /\ "mod_eff" \notin DOMAIN data
    /\ LET capW == [y \in Years |->
                      RMul(data["new_Installed_Capacity_[MW]"][y], RInt(1000000))]
           d1 == SetCol(data, "new_Installed_Capacity_[W]", capW)
           d2 == SetCol(d1, "t50", data["mod_reliability_t50"])
       IN  data' = SetCol(d2, "t90", data["mod_reliability_t90"])
    /\ error' = KeyError("mod_eff")
    /\ pc' = "error"
    /\ UNCHANGED <<material, generation, cohortLocals, generationLists,
                   eolFrames, todo, passed_in, calls,
                   first_call, tables_changed, iterrows>>

(***************************************************************************)
(* Lines 164-185: the next row of df.iterrows(); fit of the CDF on the     *)
(* row's keypoints and reset of the generation's accumulators.             *)
(***************************************************************************)
RowOf(tbl, g) == [c \in DOMAIN tbl |-> tbl[c][g]]

\* line 164: iterrows takes the values of the table when the loop starts and
\* builds every row from them, whatever the loop writes to the table since
IterRows(taken, tbl, gen) == IF gen = 0 THEN tbl ELSE taken

keypoints_ofFirstRow(tbl, gen) == <<tbl["t50"][0], tbl["t90"][0]>>

\* line 169: t50, t90 = row['t50'], row['t90']
keypoints(tbl, gen) == <<tbl["t50"][gen], tbl["t90"][gen]>>

CdfList(t50, t90, gen) ==
    [y \in Years |-> weibull_cdf(t50, t90, xclip(gen)[y])]

\* lines 440-441: the two keypoints are the keys of a dict, which holds one
\* key when the times are equal, and the unpacking into t1, t2 raises
weibull_params_raises(t50, t90) == t50 = t90

\* line 184: the count of active years restarts with every generation
ActiveAtStart(carried) == -1

BeginGeneration ==
    /\ pc = "row"
    /\ iterrows' = IterRows(iterrows, data, generation)
    /\ ~weibull_params_raises(keypoints(iterrows', generation)[1],
                              keypoints(iterrows', generation)[2])
    /\ row' = RowOf(iterrows', generation)
    /\ cdf' = CdfList(keypoints(iterrows', generation)[1],
                      keypoints(iterrows', generation)[2], generation)
    /\ activearea' = IF IsNaN(row'["Area"]) THEN Zero ELSE row'["Area"]
    /\ activeareacount' = EmptyList
    /\ areadisposed_failure' = EmptyList
    /\ areadisposed_degradation' = EmptyList
    /\ areapowergen' = EmptyList
    /\ active' = ActiveAtStart(active)
    /\ disposed_degradation' = Zero
    /\ age' = 0
    /\ pc' = "age"
    /\ UNCHANGED <<data, material, generation, generationLists, eolFrames, todo>>
    /\ UNCHANGED callState

\* lines 164-170 on a row whose keypoints weibull_params cannot unpack
BeginGenerationValueError ==
    /\ pc = "row"
    /\ iterrows' = IterRows(iterrows, data, generation)
    /\ weibull_params_raises(keypoints(iterrows', generation)[1],
                             keypoints(iterrows', generation)[2])
    /\ row' = RowOf(iterrows', generation)
    /\ error' = ValueError
    /\ pc' = "error"
    /\ UNCHANGED <<data, material, generation, cdf, age, activearea, active,
                   disposed_degradation, activeareacount, areadisposed_failure,
                   areadisposed_degradation, areapowergen, generationLists,
                   eolFrames, todo, passed_in, calls,
                   first_call, tables_changed>>

(***************************************************************************)
(* Lines 186-204: one iteration of the age loop.                           *)
(***************************************************************************)
\* line 196
SurvivingArea(area, F, repair) ==
    RMul(area, RSub(One, RMul(F, RSub(One, repair))))

\* line 198
IsRepowerStep(a, lifetime, gen) == RInt(a) = RAdd(lifetime, RInt(gen))

\* line 200
RepoweredArea(area, repower) == RAdd(Zero, RMul(area, repower))

\* line 197
FailureDisposed(prev, area) == RSub(prev, area)

\* line 201
DegradationDisposed(temp, area) == RSub(temp, area)

PowerOf_countingThisStep(area, eff, degradation, k) ==
    RMul(RMul(RMul(RMul(area, eff), R(1, 100)), irradiance_stc),
         RPow(RSub(One, RDiv(degradation, RInt(100))), k + 1))

\* line 204
PowerOf(area, eff, degradation, k) ==
    RMul(RMul(RMul(RMul(area, eff), R(1, 100)), irradiance_stc),
         RPow(RSub(One, RDiv(degradation, RInt(100))), k))

\* the column line 196 or line 200 of this iteration looks up in
\* df.iloc[age] and does not find, or "" when the iteration raises nothing
AgeStepMissing ==
    IF cdf[age] = Zero THEN ""
    ELSE IF "mod_Repairing" \notin DOMAIN data THEN "mod_Repairing"
    ELSE IF IsRepowerStep(age, row["mod_lifetime"], generation)
            /\ "mod_Repowering" \notin DOMAIN data THEN "mod_Repowering"
    ELSE ""

AgeStep ==
    /\ pc = "age"
    /\ AgeStepMissing = ""
    /\ IF cdf[age] = Zero
       THEN /\ activeareacount' = ListAppend(activeareacount, Zero)
            /\ areadisposed_failure' = ListAppend(areadisposed_failure, Zero)
            /\ areadisposed_degradation' = ListAppend(areadisposed_degradation, Zero)
            /\ areapowergen' = ListAppend(areapowergen, Zero)
            /\ disposed_degradation' = Zero
            /\ UNCHANGED <<activearea, active>>
       ELSE LET survived == SurvivingArea(activearea, cdf[age],
                                          data["mod_Repairing"][age])
                repower == IsRepowerStep(age, row["mod_lifetime"], generation)
                final == IF repower
                         THEN RepoweredArea(survived, data["mod_Repowering"][age])
                         ELSE survived
                dd == IF repower THEN DegradationDisposed(survived, final) ELSE Zero
            IN  /\ active' = active + 1
                /\ activearea' = final
                /\ disposed_degradation' = dd
                /\ areadisposed_failure' =
                       ListAppend(areadisposed_failure,
                                  FailureDisposed(activearea, survived))
                /\ areadisposed_degradation' =
                       ListAppend(areadisposed_degradation, dd)
                /\ activeareacount' = ListAppend(activeareacount, final)
                /\ areapowergen' =
                       ListAppend(areapowergen,
                                  PowerOf(final, row["mod_eff"],
                                          row["mod_degradation"], active + 1))
    /\ age' = age + 1
    /\ pc' = IF age + 1 < ListLen(cdf) THEN "age" ELSE "fix"
    /\ UNCHANGED <<data, material, generation, row, cdf, generationLists,
                   eolFrames, todo>>
    /\ UNCHANGED <<callState, iterrows>>

\* lines 194-200 when the lookup of line 196 or of line 200 raises: what the
\* lines before it assigned stays assigned
AgeStepKeyError ==
    /\ pc = "age"
    /\ AgeStepMissing # ""
    /\ active' = active + 1
    /\ IF AgeStepMissing = "mod_Repairing"
       THEN UNCHANGED <<activearea, areadisposed_failure>>
       ELSE LET survived == SurvivingArea(activearea, cdf[age],
                                          data["mod_Repairing"][age])
            IN  /\ activearea' = survived
                /\ areadisposed_failure' =
                       ListAppend(areadisposed_failure,
                                  FailureDisposed(activearea, survived))
    /\ disposed_degradation' = Zero
    /\ error' = KeyError(AgeStepMissing)
    /\ pc' = "error"
    /\ UNCHANGED <<data, material, generation, row, cdf, age, activeareacount,
                   areadisposed_degradation, areapowergen, generationLists,
                   eolFrames, todo, passed_in, calls,
                   first_call, tables_changed, iterrows>>

(***************************************************************************)
(* Lines 206-221: the initial area is added at the index before the first  *)
(* nonzero clipped age; when there is none, next() yields None, the        *)
(* subtraction raises and the except branch uses the last index.           *)
(***************************************************************************)
NoIndex == -1

\* next((i for i, e in enumerate(x) if e), None)
FirstNonzero(x) ==
    IF \E i \in DOMAIN x : x[i] # 0
    THEN CHOOSE i \in DOMAIN x : x[i] # 0 /\ \A j \in DOMAIN x : x[j] # 0 => i <= j
    ELSE NoIndex

\* lines 209, 213: None - 1 raises and the except branch is taken
ExceptBranchTaken(gen) == FirstNonzero(xclip(gen)) = NoIndex

fixinitialareacount(gen) ==
    IF ~ExceptBranchTaken(gen)
    THEN FirstNonzero(xclip(gen)) - 1
    ELSE ListLen(xclip(gen)) - 1

\* lines 211-212 and 219-220
InstallPower(count, area, eff) ==
    RAdd(count, RMul(RMul(RMul(area, eff), R(1, 100)), irradiance_stc))

FixInitialArea ==
    /\ pc = "fix"
    /\ LET i == fixinitialareacount(generation)
           count == RAdd(activeareacount[i], row["Area"])
       IN  /\ activeareacount' = [activeareacount EXCEPT ![i] = count]
           /\ areapowergen' = [areapowergen EXCEPT
                                 ![i] = InstallPower(count, row["Area"], row["mod_eff"])]
    /\ pc' = "sum"
    /\ UNCHANGED <<data, material, generation, row, cdf, age, activearea, active,
                   disposed_degradation, areadisposed_failure,
                   areadisposed_degradation, generationLists, eolFrames, todo>>
    /\ UNCHANGED <<callState, iterrows>>

(***************************************************************************)
(* Lines 225-235: the generation's lists are added to the cumulative       *)
(* columns and kept as one row of the cohort matrices.                     *)
(***************************************************************************)
Accumulate ==
    /\ pc = "sum"
    /\ LET d1 == SetCol(data, "Cumulative_Area_disposedby_Failure",
                        ColAdd(data["Cumulative_Area_disposedby_Failure"],
                               areadisposed_failure))
           d2 == SetCol(d1, "Cumulative_Area_disposedby_Degradation",
                        ColAdd(data["Cumulative_Area_disposedby_Degradation"],
                               areadisposed_degradation))
           d3 == SetCol(d2, "Cumulative_Area_disposed",
                        ColAdd(ColAdd(data["Cumulative_Area_disposed"],
                                      areadisposed_failure),
                               areadisposed_degradation))
           d4 == SetCol(d3, "Cumulative_Active_Area",
                        ColAdd(data["Cumulative_Active_Area"], activeareacount))
       IN  data' = SetCol(d4, "Cumulative_Power_[W]",
                          ColAdd(data["Cumulative_Power_[W]"], areapowergen))
    /\ Generation_Disposed_byYear' =
           ListAppend(Generation_Disposed_byYear,
                      ListAdd(areadisposed_failure, areadisposed_degradation))
    /\ Generation_Active_byYear' =
           ListAppend(Generation_Active_byYear, activeareacount)
    /\ Generation_Power_byYear' =
           ListAppend(Generation_Power_byYear, areapowergen)
    /\ generation' = generation + 1
    /\ pc' = IF generation + 1 < NumYears THEN "row" ELSE "eol"
    /\ UNCHANGED <<material, cohortLocals, eolFrames, todo>>
    /\ UNCHANGED <<callState, iterrows>>

(***************************************************************************)
(* Lines 237-281: the cohort matrix (row = generation, column = year) is   *)
(* joined to the table as the EOL_on_Year_ columns, replacing any such     *)
(* columns already there, and split by the collection and recycling rates  *)
(* of the column's year; the table is stored back.                         *)
(***************************************************************************)
EOLColumn(y) == "EOL_on_Year_" \o ToString(y)

EOLColumns == {EOLColumn(y) : y \in Years}

MulByYear_byInstallYear(M, v) ==
    [g \in DOMAIN M |-> [y \in Years |-> RMul(M[g][y], v[g])]]

\* M.mul(v): every column y is scaled by v[y]
MulByYear(M, v) == [g \in DOMAIN M |-> [y \in Years |-> RMul(M[g][y], v[y])]]

MulByGeneration_byDisposalYear(M, v) ==
    [g \in DOMAIN M |-> [y \in Years |-> RMul(M[g][y], v[y])]]

\* M.multiply(v, axis=0): every row g is scaled by v[g]
MulByGeneration(M, v) == [g \in DOMAIN M |-> [y \in Years |-> RMul(M[g][y], v[g])]]

\* list(M.sum()): the sum of every column
ColumnSums(M) == [y \in Years |-> SumTo([g \in DOMAIN M |-> M[g][y]], ListLen(M) - 1)]

PctCol(col) == [y \in Years |-> Pct(col[y])]

ComplementCol(col) == [y \in Years |-> RSub(One, col[y])]

JoinEOL(tbl, G) ==
    [c \in ((DOMAIN tbl) \ EOLColumns) \cup EOLColumns |->
        IF c \in EOLColumns
        THEN LET y == CHOOSE yy \in Years : EOLColumn(yy) = c
             IN  [g \in Years |-> G[g][y]]
        ELSE tbl[c]]

EOLFrame(tbl) == [g \in Years |-> [y \in Years |-> tbl[EOLColumn(y)][g]]]

\* line 273
NotCollected_byRecycledRate(EOL, df) ==
    MulByYear(EOL, ComplementCol(PctCol(df["mod_EOL_collected_recycled"])))

NotCollected(EOL, df) ==
    MulByYear(EOL, ComplementCol(PctCol(df["mod_EOL_collection_eff"])))

ModuleEOL ==
    /\ pc = "eol"
    /\ LET df == JoinEOL(data, Generation_Disposed_byYear)
           EOL == EOLFrame(df)
           collection == PctCol(df["mod_EOL_collection_eff"])
           recycled == PctCol(df["mod_EOL_collected_recycled"])
           EOL_Collected == MulByYear(EOL, collection)
           notCollected == NotCollected(EOL, df)
           eolRecycled == MulByYear(EOL_Collected, recycled)
           notRecycled == MulByYear(EOL_Collected, ComplementCol(recycled))
           d1 == SetCol(df, "EoL_Collected", ColumnSums(EOL_Collected))
           d2 == SetCol(d1, "EoL_NotCollected", ColumnSums(notCollected))
           d3 == SetCol(d2, "EoL_Recycled", ColumnSums(eolRecycled))
       IN  /\ data' = SetCol(d3, "EoL_NotRecycled_Landfilled", ColumnSums(notRecycled))
           /\ landfill_Collection' = notCollected
           /\ EOL_Recycled' = eolRecycled
           /\ EOL_NotRecycled_Landfilled' = notRecycled
    /\ todo' = DOMAIN material
    /\ pc' = IF DOMAIN material = {} THEN "done" ELSE "mat"
    /\ UNCHANGED <<material, generation, cohortLocals, generationLists>>
    /\ UNCHANGED <<callState, iterrows>>

(***************************************************************************)
(* Lines 292-376: one iteration of the material loop.                      *)
(***************************************************************************)
ColMul(a, b) == [y \in Years |-> RMul(a[y], b[y])]

ColSub(a, b) == [y \in Years |-> RSub(a[y], b[y])]

ColSum(a, b) == [y \in Years |-> RAdd(a[y], b[y])]

ColDiv(a, b) == [y \in Years |-> RDiv(a[y], b[y])]

\* line 342
ManufacturingInput(manufactured, eff) == ColDiv(manufactured, PctCol(eff))

MFGScrap_input(manufactured, input) == input

\* line 343
MFGScrap(manufactured, input) == ColSub(manufactured, input)

EOLRecycledSuccesfully_byHQRate(sent, dm) ==
    MulByYear(sent, PctCol(dm["mat_EOL_Recycled_into_HQ"]))

\* line 324
EOLRecycledSuccesfully(sent, dm) ==
    MulByYear(sent, PctCol(dm["mat_EOL_collected_Recycled"]))

VirginStock_eolOnly(input, eolHQ, mfgHQ) == ColSub(input, eolHQ)

\* line 356
VirginStock(input, eolHQ, mfgHQ) == ColSub(ColSub(input, eolHQ), mfgHQ)

TotalEoLLandfilled_noLosses(dm) ==
    ColSum(ColSum(dm["mat_modules_NotCollected"], dm["mat_modules_NotRecycled"]),
           dm["mat_EOL_NotRecycled_Landfilled"])

\* lines 359-362
TotalEoLLandfilled(dm) ==
    ColSum(ColSum(ColSum(dm["mat_modules_NotCollected"],
                         dm["mat_modules_NotRecycled"]),
                  dm["mat_EOL_NotRecycled_Landfilled"]),
           dm["mat_EOL_Recycled_Losses_Landfilled"])

\* lines 364-365
TotalMFGLandfilled(dm) ==
    ColSum(dm["mat_MFG_Scrap_Landfilled"],
           dm["mat_MFG_Scrap_Recycled_Losses_Landfilled"])

RecycledIntoHQColumn_asInput == "mat_EOL_Recycled_into_HQ"

\* line 331: the output column differs from the input column
\* mat_EOL_Recycled_into_HQ by the case of one letter
RecycledIntoHQColumn == "mat_EoL_Recycled_into_HQ"

\* lines 312-338: the end-of-life network
MaterialEOL(dm) ==
    LET mass == dm["mat_massperm2"]
        sento == MulByGeneration(EOL_Recycled, mass)
        rate == PctCol(dm["mat_EOL_collected_Recycled"])
        hq == PctCol(dm["mat_EOL_Recycled_into_HQ"])
        reuse == PctCol(dm["mat_EOL_RecycledHQ_Reused4MFG"])
        sent == MulByYear(sento, rate)
        notSent == MulByYear(sento, ComplementCol(rate))
        succ == EOLRecycledSuccesfully(sent, dm)
        losses == MulByYear(sent, ComplementCol(rate))
        recHQ == MulByYear(succ, hq)
        recOQ == MulByYear(succ, ComplementCol(hq))
        hqMFG == MulByYear(recHQ, reuse)
        hqOU == MulByYear(recHQ, ComplementCol(reuse))
        m1 == SetCol(dm, "mat_modules_NotRecycled",
                     ColumnSums(MulByGeneration(EOL_NotRecycled_Landfilled, mass)))
        m2 == SetCol(m1, "mat_modules_NotCollected",
                     ColumnSums(MulByGeneration(landfill_Collection, mass)))
        m3 == SetCol(m2, "mat_EOL_sento_Recycling", ColumnSums(sent))
        m4 == SetCol(m3, "mat_EOL_NotRecycled_Landfilled", ColumnSums(notSent))
        m5 == SetCol(m4, "mat_EOL_Recycled", ColumnSums(succ))
        m6 == SetCol(m5, "mat_EOL_Recycled_Losses_Landfilled", ColumnSums(losses))
        m7 == SetCol(m6, RecycledIntoHQColumn, ColumnSums(recHQ))
        m8 == SetCol(m7, "mat_EoL_Recycled_into_OQ", ColumnSums(recOQ))
        m9 == SetCol(m8, "mat_EoL_Recycled_HQ_into_MFG", ColumnSums(hqMFG))
    IN  SetCol(m9, "mat_EOL_Recycled_HQ_into_OU", ColumnSums(hqOU))

\* lines 341-356: the manufacturing-scrap network and the virgin stock
MaterialMFG(dm, area) ==
    LET manufactured == ColMul(area, dm["mat_massperm2"])
        input == ManufacturingInput(manufactured, dm["material_MFG_eff"])
        scrap == MFGScrap(manufactured, input)
        sent == ColMul(scrap, PctCol(dm["mat_MFG_scrap_recycled"]))
        landfilled == ColSub(scrap, sent)
        recycled == ColMul(sent, PctCol(dm["mat_MFG_scrap_recycling_eff"]))
        losses == ColSub(sent, recycled)
        hq == ColMul(recycled, PctCol(dm["mat_MFG_scrap_Recycled_into_HQ"]))
        oq == ColSub(recycled, hq)
        hqMFG == ColMul(hq, PctCol(dm["mat_MFG_scrap_Recycled_into_HQ_Reused4MFG"]))
        hqOU == ColSub(hq, hqMFG)
        m1 == SetCol(dm, "mat_Manufactured", manufactured)
        m2 == SetCol(m1, "mat_Manufacturing_Input", input)
        m3 == SetCol(m2, "mat_MFG_Scrap", scrap)
        m4 == SetCol(m3, "mat_MFG_Scrap_Sentto_Recycling", sent)
        m5 == SetCol(m4, "mat_MFG_Scrap_Landfilled", landfilled)
        m6 == SetCol(m5, "mat_MFG_Scrap_Recycled", recycled)
        m7 == SetCol(m6, "mat_MFG_Scrap_Recycled_Losses_Landfilled", losses)
        m8 == SetCol(m7, "mat_MFG_Recycled_into_HQ", hq)
        m9 == SetCol(m8, "mat_MFG_Recycled_into_OQ", oq)
        m10 == SetCol(m9, "mat_MFG_Recycled_HQ_into_MFG", hqMFG)
        m11 == SetCol(m10, "mat_MFG_Recycled_HQ_into_OU", hqOU)
    IN  SetCol(m11, "mat_Virgin_Stock",
               VirginStock(input, dm["mat_EoL_Recycled_HQ_into_MFG"], hqMFG))

\* lines 359-373: the totals
MaterialTotals(dm) ==
    LET m1 == SetCol(dm, "mat_Total_EoL_Landfilled", TotalEoLLandfilled(dm))
        m2 == SetCol(m1, "mat_Total_MFG_Landfilled", TotalMFGLandfilled(dm))
        m3 == SetCol(m2, "mat_Total_Landfilled",
                     ColSum(m2["mat_Total_EoL_Landfilled"],
                            m2["mat_Total_MFG_Landfilled"]))
    IN  SetCol(m3, "mat_Total_Recycled_OU",
               ColSum(ColSum(ColSum(dm["mat_EoL_Recycled_into_OQ"],
                                    dm["mat_EOL_Recycled_HQ_into_OU"]),
                             dm["mat_MFG_Recycled_into_OQ"]),
                      dm["mat_MFG_Recycled_HQ_into_OU"]))

\* lines 341-343: the columns the manufacturing network has written when
\* line 344 looks up mat_MFG_scrap_recycled
MaterialMFGUntilScrap(dm, area) ==
    LET manufactured == ColMul(area, dm["mat_massperm2"])
        input == ManufacturingInput(manufactured, dm["material_MFG_eff"])
        m1 == SetCol(dm, "mat_Manufactured", manufactured)
        m2 == SetCol(m1, "mat_Manufacturing_Input", input)
    IN  SetCol(m2, "mat_MFG_Scrap", MFGScrap(manufactured, input))

materialdata_ofFirst(tables, mat) == tables["glass"]

\* line 296: dm is the table of the material the loop is at
materialdata(tables, mat) == tables[mat]

MaterialStep(mat) ==
    /\ pc = "mat"
    /\ mat \in todo
    /\ "mat_MFG_scrap_recycled" \in DOMAIN materialdata(material, mat)
    /\ material' = [material EXCEPT ![mat] =
                       MaterialTotals(MaterialMFG(MaterialEOL(materialdata(material, mat)),
                                                  data["Area"]))]
    /\ todo' = todo \ {mat}
    /\ pc' = IF todo' = {} THEN "done" ELSE "mat"
    /\ UNCHANGED <<data, generation, cohortLocals, generationLists, eolFrames>>
    /\ UNCHANGED <<callState, iterrows>>

\* lines 296-344 on a material table without mat_MFG_scrap_recycled: the
\* columns of lines 312-343 are in the table when line 344 raises
MaterialStepKeyError(mat) ==
    /\ pc = "mat"
    /\ mat \in todo
    /\ "mat_MFG_scrap_recycled" \notin DOMAIN materialdata(material, mat)
    /\ material' = [material EXCEPT ![mat] =
                       MaterialMFGUntilScrap(MaterialEOL(materialdata(material, mat)),
                                             data["Area"])]
    /\ error' = KeyError("mat_MFG_scrap_recycled")
    /\ pc' = "error"
    /\ UNCHANGED <<data, generation, cohortLocals, generationLists, eolFrames,
                   todo, passed_in, calls,
                   first_call, tables_changed, iterrows>>

Next ==
    \/ Setup
    \/ SetupKeyError
    \/ BeginGeneration
    \/ BeginGenerationValueError
    \/ AgeStep
    \/ AgeStepKeyError
    \/ FixInitialArea
    \/ Accumulate
    \/ ModuleEOL
    \/ \E mat \in MaterialNames : MaterialStep(mat)
    \/ \E mat \in MaterialNames : MaterialStepKeyError(mat)

Spec == Init /\ [][Next]_vars

(***************************************************************************)
(* What a program does with a Simulation between two calls of              *)
(* calculateMassFlow: it calls calculateMassFlow again, after a call that  *)
(* returned or after one that raised; it hands a stored table to           *)
(* sens_StageImprovement, which changes it in place; it loads a scenario   *)
(* or a material anew.  The model follows one such change.  The tables are *)
(* the stored ones, the locals are those of a new call.  The scenario      *)
(* table has at most one override and so has the table of glass, in its    *)
(* first row.                                                              *)
(***************************************************************************)
MaxCalls == 2

InitTwice ==
    \E o1 \in {o \in Overrides : o.tbl # "glass"},
       o2 \in {o \in Overrides : o.tbl # "module" /\ o.y \in {NoRow, 0}} :
          InitWith(o1, o2)

\* no call of calculateMassFlow is under way
OutsideCall == pc \in {"done", "error"}

callLocals == <<iterrows, generation, cohortLocals, generationLists, eolFrames,
                todo>>

CallAgain ==
    /\ OutsideCall
    /\ calls < MaxCalls
    /\ calls' = calls + 1
    /\ first_call' = [data |-> data, material |-> material]
    /\ error' = NoError
    /\ pc' = "setup"
    /\ iterrows' = EmptyList
    /\ generation' = 0
    /\ row' = EmptyList
    /\ cdf' = EmptyList
    /\ age' = 0
    /\ activearea' = Zero
    /\ active' = -1
    /\ disposed_degradation' = Zero
    /\ activeareacount' = EmptyList
    /\ areadisposed_failure' = EmptyList
    /\ areadisposed_degradation' = EmptyList
    /\ areapowergen' = EmptyList
    /\ Generation_Disposed_byYear' = EmptyList
    /\ Generation_Active_byYear' = EmptyList
    /\ Generation_Power_byYear' = EmptyList
    /\ landfill_Collection' = EmptyList
    /\ EOL_Recycled' = EmptyList
    /\ EOL_NotRecycled_Landfilled' = EmptyList
    /\ todo' = {}
    /\ UNCHANGED <<data, material, passed_in, tables_changed>>

\* the arguments sens_StageImprovement is called with: the stage is a
\* column of the table handed in, the rows after start_year are scaled
Improvements == {RInt(2)}

StartYears == {0}

StagesOf(target) ==
    IF target = "module" THEN {"mod_eff"} ELSE {"mat_massperm2"}

\* lines 508-509: the column as floats, its rows of an index above
\* start_year multiplied by improvement
StageImproved(df, stage, improvement, start_year) ==
    [df EXCEPT ![stage] =
        [y \in Years |-> IF y > start_year THEN RMul(df[stage][y], improvement)
                         ELSE df[stage][y]]]

\* sens_StageImprovement on the scenario table or on the table of a material
sens_StageImprovement(target) ==
    /\ OutsideCall
    /\ ~tables_changed
    /\ \E stage \in StagesOf(target), improvement \in Improvements,
          start_year \in StartYears :
          IF target = "module"
          THEN /\ stage \in DOMAIN data
               /\ data' = StageImproved(data, stage, improvement, start_year)
               /\ UNCHANGED material
          ELSE /\ target \in DOMAIN material
               /\ stage \in DOMAIN material[target]
               /\ material' = [material EXCEPT ![target] =
                                  StageImproved(material[target], stage,
                                                improvement, start_year)]
               /\ UNCHANGED data
    /\ tables_changed' = TRUE
    /\ UNCHANGED <<pc, callLocals, error, passed_in, calls, first_call>>

\* the table Scenario.__init__ reads from the baseline file of the scenario
ScenarioFile ==
    MakeTable("module", ModuleColumns, BaseModuleRow, NoOverride, NoOverride)

\* the table Material.__init__ reads from the baseline file of material m
MaterialFile(m) ==
    MakeTable(m, MaterialColumns, BaseMaterialRow(m), NoOverride, NoOverride)

\* lines 112-114: the scenario is replaced by one read from its file, which
\* has no materials
createScenario ==
    /\ OutsideCall
    /\ ~tables_changed
    /\ data' = ScenarioFile
    /\ material' = [m \in {} |-> ScenarioFile]
    /\ tables_changed' = TRUE
    /\ UNCHANGED <<pc, callLocals, error, passed_in, calls, first_call>>

\* lines 407-408: the material is replaced by one read from its file
addMaterial(materialname) ==
    /\ OutsideCall
    /\ ~tables_changed
    /\ material' = [m \in (DOMAIN material) \cup {materialname} |->
                       IF m = materialname THEN MaterialFile(m) ELSE material[m]]
    /\ tables_changed' = TRUE
    /\ UNCHANGED <<data, pc, callLocals, error, passed_in, calls, first_call>>

NextTwice ==
    \/ Next
    \/ CallAgain
    \/ \E target \in {"module", "glass"} : sens_StageImprovement(target)
    \/ createScenario
    \/ \E materialname \in {"glass"} : addMaterial(materialname)

SpecTwice == InitTwice /\ [][NextTwice]_vars

(***************************************************************************)
(* Properties.                                                             *)
(***************************************************************************)
Positive(r) == RLt(Zero, r)

\* the material loop has finished material m
Processed(m) == pc \in {"mat", "done"} /\ m \notin todo

\* mass of material m in the area disposed in year y, each generation's area
\* weighed with the mass per area of its own row
DisposedMass(m, y) ==
    SumTo([g \in Years |->
              RMul(Generation_Disposed_byYear[g][y],
                   material[m]["mat_massperm2"][g])], NumYears - 1)

\* C1 as stated -- Local area conservation on the sequences a generation
\* records: at every year-step other than the installation step, the
\* failure-disposed area and the degradation-disposed area recorded for the
\* step, plus the active area recorded for it, equal the active area recorded
\* for the step before.
C1_RecordedAreaConservation ==
    pc = "sum" =>
        \A y \in Years :
            (y >= 1 /\ y # generation) =>
                RAdd(RAdd(areadisposed_failure[y], areadisposed_degradation[y]),
                     activeareacount[y]) = activeareacount[y - 1]

\* C2 -- Full mass conservation: for every processed material and every year,
\* mat_Total_Landfilled + mat_Total_Recycled_OU + mat_EoL_Recycled_HQ_into_MFG
\* + mat_MFG_Recycled_HQ_into_MFG equals the mass disposed that year plus the
\* year's mat_MFG_Scrap.
C2_FullMassConservation ==
    \A m \in MaterialNames : Processed(m) =>
        \A y \in Years :
            LET dm == material[m]
            IN  RAdd(RAdd(dm["mat_Total_Landfilled"][y], dm["mat_Total_Recycled_OU"][y]),
                     RAdd(dm["mat_EoL_Recycled_HQ_into_MFG"][y],
                          dm["mat_MFG_Recycled_HQ_into_MFG"][y]))
                = RAdd(DisposedMass(m, y), dm["mat_MFG_Scrap"][y])

\* a finished run with a year in which glass is disposed, scrapped, landfilled,
\* recycled to other uses and reused in manufacturing from both networks
C2_Witness ==
    /\ pc = "done"
    /\ \E y \in Years :
          LET dm == material["glass"]
          IN  /\ Positive(DisposedMass("glass", y))
              /\ dm["mat_MFG_Scrap"][y] # Zero
              /\ Positive(dm["mat_EOL_Recycled_Losses_Landfilled"][y])
              /\ Positive(dm["mat_EoL_Recycled_HQ_into_MFG"][y])
              /\ dm["mat_MFG_Recycled_HQ_into_MFG"][y] # Zero
              /\ dm["mat_Total_Recycled_OU"][y] # Zero
              /\ dm["mat_EOL_collected_Recycled"][y] # dm["mat_EOL_Recycled_into_HQ"][y]

FiveLossPoints(dm, notRecycled, y) ==
    RAdd(RAdd(RAdd(dm["mat_modules_NotCollected"][y], dm[notRecycled][y]),
              dm["mat_EOL_Recycled_Losses_Landfilled"][y]),
         RAdd(dm["mat_MFG_Scrap_Landfilled"][y],
              dm["mat_MFG_Scrap_Recycled_Losses_Landfilled"][y]))

\* C3 as stated -- mat_Total_Landfilled is the sum of five loss points, one
\* column standing for "EOL not-recycled": the module area collected but not
\* recycled, or the material not sent to recycling.
C3_FiveLossPoints ==
    \A m \in MaterialNames : Processed(m) =>
        \E notRecycled \in {"mat_modules_NotRecycled", "mat_EOL_NotRecycled_Landfilled"} :
            \A y \in Years :
                material[m]["mat_Total_Landfilled"][y]
                = FiveLossPoints(material[m], notRecycled, y)

\* C3 -- mat_Total_Landfilled is the sum of six loss points, each counted
\* once: modules not collected, modules collected but not recycled, material
\* of recycled modules not sent to recycling, EOL recycling losses,
\* manufacturing scrap landfilled and manufacturing scrap recycling losses.
C3_SixLossPoints ==
    \A m \in MaterialNames : Processed(m) =>
        \A y \in Years :
            material[m]["mat_Total_Landfilled"][y]
            = RAdd(FiveLossPoints(material[m], "mat_modules_NotRecycled", y),
                   material[m]["mat_EOL_NotRecycled_Landfilled"][y])

\* a finished run with a year in which all six loss points of glass are nonzero
C3_Witness ==
    /\ pc = "done"
    /\ \E y \in Years :
          LET dm == material["glass"]
          IN  /\ Positive(dm["mat_modules_NotCollected"][y])
              /\ Positive(dm["mat_modules_NotRecycled"][y])
              /\ Positive(dm["mat_EOL_NotRecycled_Landfilled"][y])
              /\ Positive(dm["mat_EOL_Recycled_Losses_Landfilled"][y])
              /\ dm["mat_MFG_Scrap_Landfilled"][y] # Zero
              /\ dm["mat_MFG_Scrap_Recycled_Losses_Landfilled"][y] # Zero

\* C4 -- Once the module cascade has run, for every year y
\* EoL_Collected[y] + EoL_NotCollected[y] = Cumulative_Area_disposed[y], and
\* this is the sum over the generations of the cohort matrix in year y.
C4_CollectedPlusNotCollected ==
    pc \in {"mat", "done"} =>
        \A y \in Years :
            /\ RAdd(data["EoL_Collected"][y], data["EoL_NotCollected"][y])
               = data["Cumulative_Area_disposed"][y]
            /\ data["Cumulative_Area_disposed"][y]
               = SumTo([g \in Years |-> Generation_Disposed_byYear[g][y]],
                       NumYears - 1)

\* a year with collected and uncollected area and collection and recycling
\* rates that differ
C4_Witness ==
    /\ pc = "done"
    /\ \E y \in Years :
          /\ Positive(data["EoL_Collected"][y])
          /\ Positive(data["EoL_NotCollected"][y])
          /\ data["mod_EOL_collection_eff"][y] # data["mod_EOL_collected_recycled"][y]

\* C5 -- The cohort matrix is triangular: the disposal of generation g in a
\* year y < g is 0, in the per-generation lists and in the EOL_on_Year_
\* columns joined to the table.
C5_Triangular ==
    /\ \A g \in DOMAIN Generation_Disposed_byYear : \A y \in Years :
          y < g => Generation_Disposed_byYear[g][y] = Zero
    /\ pc \in {"mat", "done"} =>
          \A g \in Years : \A y \in Years :
              y < g => data[EOLColumn(y)][g] = Zero

\* a generation other than the first, with area and disposal after its install
\* year
C5_Witness ==
    /\ pc = "done"
    /\ \E g \in Years : \E y \in Years :
          /\ g >= 1
          /\ y > g
          /\ Positive(data["Area"][g])
          /\ Positive(data[EOLColumn(y)][g])

\* C6 as stated -- mat_Manufacturing_Input = mat_Manufactured / efficiency and
\* mat_MFG_Scrap = mat_Manufacturing_Input - mat_Manufactured, hence scrap >= 0
\* for an efficiency in (0,100] and a manufactured mass >= 0.
C6_ScrapIsInputMinusManufactured ==
    \A m \in MaterialNames : Processed(m) =>
        \A y \in Years :
            LET dm == material[m]
            IN  /\ dm["mat_Manufacturing_Input"][y]
                   = RDiv(dm["mat_Manufactured"][y], Pct(dm["material_MFG_eff"][y]))
                /\ dm["mat_MFG_Scrap"][y]
                   = RSub(dm["mat_Manufacturing_Input"][y], dm["mat_Manufactured"][y])
                /\ (/\ Positive(dm["material_MFG_eff"][y])
                    /\ RLeq(dm["material_MFG_eff"][y], RInt(100))
                    /\ RLeq(Zero, dm["mat_Manufactured"][y]))
                   => RLeq(Zero, dm["mat_MFG_Scrap"][y])

\* C7 -- For every processed material and year, mat_Virgin_Stock =
\* mat_Manufacturing_Input - (mat_EoL_Recycled_HQ_into_MFG +
\* mat_MFG_Recycled_HQ_into_MFG).
C7_VirginStock ==
    \A m \in MaterialNames : Processed(m) =>
        \A y \in Years :
            LET dm == material[m]
            IN  dm["mat_Virgin_Stock"][y]
                = RSub(dm["mat_Manufacturing_Input"][y],
                       RAdd(dm["mat_EoL_Recycled_HQ_into_MFG"][y],
                            dm["mat_MFG_Recycled_HQ_into_MFG"][y]))

\* a year in which glass is manufactured and both reuse streams are nonzero
C7_Witness ==
    /\ pc = "done"
    /\ \E y \in Years :
          LET dm == material["glass"]
          IN  /\ Positive(dm["mat_Manufacturing_Input"][y])
              /\ Positive(dm["mat_EoL_Recycled_HQ_into_MFG"][y])
              /\ dm["mat_MFG_Recycled_HQ_into_MFG"][y] # Zero

InUnitInterval(r) == RLeq(Zero, r) /\ RLeq(r, One)

\* C8 as stated -- With repair fractions in [0,1], the recorded active area of
\* a generation does not increase from a year to the next, except into the
\* installation year and into the repowering year.
C8_ActiveAreaNonIncreasing ==
    (/\ "mod_Repairing" \in DOMAIN data
     /\ \A y \in Years : InUnitInterval(data["mod_Repairing"][y])) =>
        \A g \in DOMAIN Generation_Active_byYear : \A y \in Years :
            (/\ y >= 1
             /\ y # g
             /\ RInt(y) # RAdd(data["mod_lifetime"][g], RInt(g)))
            => RLeq(Generation_Active_byYear[g][y], Generation_Active_byYear[g][y - 1])

\* C9 as stated -- For a generation with area A0, no repair in any year and a
\* lifetime beyond the horizon (no repowering takes place), the active area
\* recorded a years after installation is A0 * (1 - F(a)).
C9_ActiveAreaIsSurvival ==
    \A g \in DOMAIN Generation_Active_byYear :
        (/\ "mod_Repairing" \in DOMAIN data
         /\ \A y \in Years : data["mod_Repairing"][y] = Zero
         /\ RLeq(RInt(NumYears), RAdd(data["mod_lifetime"][g], RInt(g))))
        => \A y \in Years :
              y > g =>
                 Generation_Active_byYear[g][y]
                 = RMul(data["Area"][g],
                        RSub(One, weibull_cdf(data["t50"][g], data["t90"][g], y - g)))

\* C10 -- In a year in which a material's manufacturing efficiency is 100,
\* mat_Manufacturing_Input = mat_Manufactured, mat_MFG_Scrap = 0 and the eight
\* scrap-cascade columns are 0.
C10_NoScrapAtFullEfficiency ==
    \A m \in MaterialNames : Processed(m) =>
        \A y \in Years :
            LET dm == material[m]
            IN  dm["material_MFG_eff"][y] = RInt(100) =>
                   /\ dm["mat_Manufacturing_Input"][y] = dm["mat_Manufactured"][y]
                   /\ dm["mat_MFG_Scrap"][y] = Zero
                   /\ \A c \in {"mat_MFG_Scrap_Sentto_Recycling",
                                "mat_MFG_Scrap_Landfilled", "mat_MFG_Scrap_Recycled",
                                "mat_MFG_Scrap_Recycled_Losses_Landfilled",
                                "mat_MFG_Recycled_into_HQ", "mat_MFG_Recycled_into_OQ",
                                "mat_MFG_Recycled_HQ_into_MFG",
                                "mat_MFG_Recycled_HQ_into_OU"} : dm[c][y] = Zero

\* glass manufactured at efficiency 100 in a year, with nonzero scrap rates
C10_Witness ==
    /\ pc = "done"
    /\ \E y \in Years :
          LET dm == material["glass"]
          IN  /\ dm["material_MFG_eff"][y] = RInt(100)
              /\ Positive(dm["mat_Manufactured"][y])
              /\ Positive(dm["mat_MFG_scrap_recycled"][y])
              /\ Positive(dm["mat_MFG_scrap_recycling_eff"][y])

\* C11 as stated -- After the call the stored scenario table and material
\* tables hold exactly the columns and values they held when it began.
C11_InputTablesUntouched ==
    pc = "done" => data = passed_in.data /\ material = passed_in.material

(***************************************************************************)
(* The lists of one generation computed from the table as passed in and    *)
(* the generation index alone: n iterations of the age loop started from   *)
(* the generation's own area, then the install fix.                        *)
(***************************************************************************)
OwnStart(tbl, g) ==
    [area   |-> AreaOf(RMul(tbl["new_Installed_Capacity_[MW]"][g], RInt(1000000)),
                       tbl["mod_eff"][g]),
     active |-> -1,
     count  |-> EmptyList, failure |-> EmptyList,
     degradation |-> EmptyList, power |-> EmptyList]

OwnAgeStep(tbl, g, a, s) ==
    LET F == weibull_cdf(tbl["mod_reliability_t50"][g],
                         tbl["mod_reliability_t90"][g], xclip(g)[a])
    IN  IF F = Zero
        THEN [s EXCEPT !.count = ListAppend(s.count, Zero),
                       !.failure = ListAppend(s.failure, Zero),
                       !.degradation = ListAppend(s.degradation, Zero),
                       !.power = ListAppend(s.power, Zero)]
        ELSE LET survived == SurvivingArea(s.area, F, tbl["mod_Repairing"][a])
                 repower == IsRepowerStep(a, tbl["mod_lifetime"][g], g)
                 final == IF repower
                          THEN RepoweredArea(survived, tbl["mod_Repowering"][a])
                          ELSE survived
             IN  [area   |-> final,
                  active |-> s.active + 1,
                  count  |-> ListAppend(s.count, final),
                  failure |-> ListAppend(s.failure, RSub(s.area, survived)),
                  degradation |-> ListAppend(s.degradation,
                                             IF repower THEN RSub(survived, final)
                                             ELSE Zero),
                  power  |-> ListAppend(s.power,
                                PowerOf(final, tbl["mod_eff"][g],
                                        tbl["mod_degradation"][g], s.active + 1))]

RECURSIVE OwnAgeLoop(_, _, _)
OwnAgeLoop(tbl, g, n) ==
    IF n = 0 THEN OwnStart(tbl, g)
    ELSE CHOOSE next \in {OwnAgeStep(tbl, g, n - 1, s) :
                            s \in {OwnAgeLoop(tbl, g, n - 1)}} : TRUE

OwnFix(tbl, g, s, A0) ==
    LET count == RAdd(s.count[g], A0)
    IN  [count  |-> [s.count EXCEPT ![g] = count],
         failure |-> s.failure,
         degradation |-> s.degradation,
         power  |-> [s.power EXCEPT ![g] = InstallPower(count, A0, tbl["mod_eff"][g])]]

OwnLists(tbl, g) ==
    CHOOSE lists \in {OwnFix(tbl, g, s, OwnStart(tbl, g).area) :
                        s \in {OwnAgeLoop(tbl, g, NumYears)}} : TRUE

\* the sums over the generations of the lists f[g], year by year
SumOverGenerations(f) ==
    [y \in Years |-> SumTo([g \in Years |-> f[g][y]], NumYears - 1)]

\* the lists every generation contributes, each computed from the table as
\* passed in and that generation alone
OwnContributions == [g \in Years |-> OwnLists(passed_in.data, g)]

\* When the row loop has ended, the lists every generation contributed are
\* those computed from its own row, with no state carried over from the
\* generations before it, the cumulative columns are their sums, and the
\* cohort matrix entry of generation g and year y is the disposal of
\* generation g in year y.
NoStateCarried ==
    /\ pc = "eol" =>
          \A own \in {OwnContributions} :
              /\ \A g \in Years :
                    /\ Generation_Active_byYear[g] = own[g].count
                    /\ Generation_Power_byYear[g] = own[g].power
                    /\ Generation_Disposed_byYear[g] =
                           ListAdd(own[g].failure, own[g].degradation)
              /\ data["Cumulative_Active_Area"]
                 = SumOverGenerations([g \in Years |-> own[g].count])
              /\ data["Cumulative_Area_disposedby_Failure"]
                 = SumOverGenerations([g \in Years |-> own[g].failure])
              /\ data["Cumulative_Area_disposedby_Degradation"]
                 = SumOverGenerations([g \in Years |-> own[g].degradation])
              /\ data["Cumulative_Power_[W]"]
                 = SumOverGenerations([g \in Years |-> own[g].power])
    /\ (pc = "mat" /\ todo = MaterialNames) =>
          \A g \in Years : \A y \in Years :
              data[EOLColumn(y)][g] = Generation_Disposed_byYear[g][y]

\* C13 -- Once the material loop has finished a material, in whichever order
\* it took the materials, that material's table is the one computed from its
\* own table as passed in and the scenario's module-level results, whatever
\* the other materials' tables hold.
C13_MaterialsIndependent ==
    \A m \in MaterialNames : Processed(m) =>
        material[m] =
            MaterialTotals(MaterialMFG(MaterialEOL(passed_in.material[m]),
                                       data["Area"]))

\* both materials have been processed, glass with inputs that are not the
\* base ones, and both have mass landfilled
C13_Witness ==
    /\ pc = "done"
    /\ \E y \in Years :
          material["glass"]["mat_massperm2"][y] # BaseMaterialRow("glass")["mat_massperm2"]
    /\ \E y \in Years : Positive(material["silicon"]["mat_Total_Landfilled"][y])
    /\ \E y \in Years : Positive(material["glass"]["mat_Total_Landfilled"][y])

\* the percentage rates of the scenario table and of a material table
ModuleRateColumns == {"mod_EOL_collection_eff", "mod_EOL_collected_recycled"}

MaterialRateColumns == MaterialColumns \ {"mat_massperm2"}

IsPercentage(r) == RLeq(Zero, r) /\ RLeq(r, RInt(100))

InvalidRateIn(tbl, cols) ==
    \E c \in cols \cap DOMAIN tbl : \E y \in Years : ~IsPercentage(tbl[c][y])

\* C14 as stated -- When some percentage rate of the tables passed in is
\* outside [0,100] in some year, the call does not run to its end producing
\* output values.
C14_InvalidRateRejected ==
    (\/ InvalidRateIn(passed_in.data, ModuleRateColumns)
     \/ \E m \in MaterialNames :
           InvalidRateIn(passed_in.material[m], MaterialRateColumns))
        => pc # "done"

\* the columns a complete call adds to the scenario table and to a material
\* table
DerivedModuleColumns ==
    {"new_Installed_Capacity_[W]", "t50", "t90", "Area",
     "Cumulative_Area_disposedby_Failure",
     "Cumulative_Area_disposedby_Degradation", "Cumulative_Area_disposed",
     "Cumulative_Active_Area", "Cumulative_Power_[W]", "EoL_Collected",
     "EoL_NotCollected", "EoL_Recycled", "EoL_NotRecycled_Landfilled"}
    \cup EOLColumns

DerivedMaterialColumns ==
    {"mat_EOL_NotRecycled_Landfilled", "mat_EOL_Recycled",
     "mat_EOL_Recycled_HQ_into_OU", "mat_EOL_Recycled_Losses_Landfilled",
     "mat_EOL_sento_Recycling", "mat_EoL_Recycled_HQ_into_MFG",
     "mat_EoL_Recycled_into_OQ", "mat_MFG_Recycled_HQ_into_MFG",
     "mat_MFG_Recycled_HQ_into_OU", "mat_MFG_Recycled_into_HQ",
     "mat_MFG_Recycled_into_OQ", "mat_MFG_Scrap",
     "mat_MFG_Scrap_Landfilled", "mat_MFG_Scrap_Recycled",
     "mat_MFG_Scrap_Recycled_Losses_Landfilled",
     "mat_MFG_Scrap_Sentto_Recycling", "mat_Manufactured",
     "mat_Manufacturing_Input", "mat_Total_EoL_Landfilled",
     "mat_Total_Landfilled", "mat_Total_MFG_Landfilled",
     "mat_Total_Recycled_OU", "mat_Virgin_Stock",
     "mat_modules_NotCollected", "mat_modules_NotRecycled",
     RecycledIntoHQColumn}

SomeNotAll(tbl, before, derived) ==
    LET added == (DOMAIN tbl) \ (DOMAIN before)
    IN  added # {} /\ added # derived

\* C15 as stated -- When the call has ended in an error, neither the stored
\* scenario table nor any stored material table has been given some but not
\* all of its derived columns.
C15_NoPartialOutput ==
    pc = "error" =>
        /\ ~SomeNotAll(data, passed_in.data, DerivedModuleColumns)
        /\ \A m \in MaterialNames :
              ~SomeNotAll(material[m], passed_in.material[m], DerivedMaterialColumns)

\* C16 as stated -- A generation whose keypoints weibull_params cannot fit
\* (t50 = t90) does not end the call: the failure of the fit is never the
\* error the scenario computation stops with.
C16_FitFailureIsLocal ==
    ~(pc = "error" /\ error = ValueError)

\* the columns the tables passed in have come without
AbsentColumns ==
    (ModuleColumns \ DOMAIN passed_in.data)
    \cup UNION {MaterialColumns \ DOMAIN passed_in.material[m] : m \in MaterialNames}

\* C17 as stated -- The absence of the repair or of the repowering column
\* never ends the call in an error, and an error over another absent column
\* names that column.
C17_OptionalColumnsDefault ==
    pc = "error" /\ error.type = "KeyError" =>
        /\ error.name \notin {"mod_Repairing", "mod_Repowering"}
        /\ error.name \in AbsentColumns

\* the area of generation g that is left by the failures of the years up to
\* and including year a, before any repowering
RECURSIVE SurvivedUpTo(_, _, _)
SurvivedUpTo(tbl, g, a) ==
    IF a < 0 THEN tbl["Area"][g]
    ELSE SurvivingArea(SurvivedUpTo(tbl, g, a - 1),
                       weibull_cdf(tbl["t50"][g], tbl["t90"][g], xclip(g)[a]),
                       tbl["mod_Repairing"][a])

\* C19 as stated -- When the age loop of a generation g has ended, its
\* degradation-disposed area at the year g + L, for any lifetime L >= 0 that
\* puts the year inside the simulated ones, is active' - active' * repower of
\* that year, active' being the area the failures have left, and it is 0 at
\* every other year.
C19_RepowerAtLifetime ==
    (pc = "fix" /\ {"mod_Repairing", "mod_Repowering"} \subseteq DOMAIN data) =>
        \A y \in Years :
            areadisposed_degradation[y] =
                IF IsRepowerStep(y, row["mod_lifetime"], generation)
                THEN LET S == SurvivedUpTo(data, generation, y)
                     IN  RSub(S, RMul(S, data["mod_Repowering"][y]))
                ELSE Zero

\* C20 as stated -- When the install fix of a generation is done, its recorded
\* active area at the installation year is the initial area A0 and its
\* recorded power there is A0 * efficiency * 0.01 * irradiance.
C20_InstallYearAreaAndPower ==
    pc = "sum" =>
        /\ activeareacount[generation] = row["Area"]
        /\ areapowergen[generation] =
               RMul(RMul(RMul(row["Area"], row["mod_eff"]), R(1, 100)),
                    irradiance_stc)

\* the year-steps up to and including a at which the generation's CDF is
\* not zero
NonzeroSteps(a) == {b \in 0 .. a : cdf[b] # Zero}

PowerWithExponent(a, k) ==
    RMul(RMul(RMul(RMul(activeareacount[a], row["mod_eff"]), R(1, 100)),
              irradiance_stc),
         RPow(RSub(One, RDiv(row["mod_degradation"], RInt(100))), k))

\* C21 as stated -- At every year-step with nonzero CDF the recorded power is
\* active area * efficiency * irradiance * (1 - degradation)^k with k the
\* number of the year-steps with nonzero CDF seen so far, this one counted.
C21_PowerExponentCountsThisStep ==
    pc \in {"age", "fix"} =>
        \A a \in DOMAIN areapowergen :
            cdf[a] # Zero =>
                areapowergen[a] = PowerWithExponent(a, Cardinality(NonzeroSteps(a)))

\* C21 -- At every year-step with nonzero CDF the recorded power is
\* active area * efficiency * 0.01 * irradiance * (1 - degradation/100)^k
\* with k the number of the year-steps with nonzero CDF before this one (0 at
\* the first such step); the years with zero CDF do not increase k.
C21_PowerExponentCountsEarlierSteps ==
    pc \in {"age", "fix"} =>
        \A a \in DOMAIN areapowergen :
            cdf[a] # Zero =>
                areapowergen[a] =
                    PowerWithExponent(a, Cardinality(NonzeroSteps(a)) - 1)

\* the age loop has recorded power at year 2 of a degrading generation, its
\* second step with nonzero CDF, after a year of zero CDF
C21_Witness ==
    /\ pc \in {"age", "fix"}
    /\ row["mod_degradation"] # Zero
    /\ 2 \in DOMAIN areapowergen
    /\ Positive(areapowergen[2])
    /\ cdf[0] = Zero
    /\ Cardinality(NonzeroSteps(2)) = 2

\* C22 as stated -- When the install fix of a generation is done, the
\* fallback to the last index has been taken exactly if none of the
\* generation's year indices has a nonzero CDF, and otherwise the initial
\* area has been credited at the install index.
C22_FallbackIffDegenerate ==
    pc = "sum" =>
        /\ ExceptBranchTaken(generation) <=> (\A y \in Years : cdf[y] = Zero)
        /\ ~ExceptBranchTaken(generation) =>
               fixinitialareacount(generation) = generation

\* the keypoint pairs a row can be given
KeypointPairs == {<<RInt(1), T90Exp>>, <<RInt(2), T90Steep>>}

\* the table with the keypoints of row y replaced by the pair kp
WithKeypoints(tbl, y, kp) ==
    [c \in DOMAIN tbl |->
        IF c = "mod_reliability_t50" THEN [tbl[c] EXCEPT ![y] = kp[1]]
        ELSE IF c = "mod_reliability_t90" THEN [tbl[c] EXCEPT ![y] = kp[2]]
        ELSE tbl[c]]

\* C23 -- When a generation g has been computed, its active-area, failure,
\* degradation and power sequences are those the passed-in table yields with
\* the t50 and t90 of any other year's row replaced by any other keypoints.
C23_KeypointsOfOwnRowOnly ==
    pc = "sum" =>
        \A y \in Years \ {generation} : \A kp \in KeypointPairs :
            OwnLists(WithKeypoints(passed_in.data, y, kp), generation) =
                [count |-> activeareacount, failure |-> areadisposed_failure,
                 degradation |-> areadisposed_degradation,
                 power |-> areapowergen]

\* a generation has been computed that loses area to failures, in a table
\* where the row of another year has other keypoints than its own
C23_Witness ==
    /\ pc = "sum"
    /\ \E y \in Years : Positive(areadisposed_failure[y])
    /\ \E y \in Years \ {generation} :
          data["mod_reliability_t50"][y] # row["mod_reliability_t50"]

\* the sum over the generations of f[g][y]
OverGenerations(f, y) == SumTo([g \in Years |-> f[g][y]], NumYears - 1)

\* C24 -- Once the module cascade has run, the area of generation g disposed
\* in year y is split with the collection efficiency and the
\* collected-to-recycled rate of year y, for every generation alike, and
\* EoL_Collected, EoL_NotCollected, EoL_Recycled and
\* EoL_NotRecycled_Landfilled of year y are the sums of the shares over the
\* generations.
C24_RatesOfDisposalYear ==
    pc \in {"mat", "done"} =>
        LET D == Generation_Disposed_byYear
            coll == [y \in Years |-> Pct(data["mod_EOL_collection_eff"][y])]
            rec == [y \in Years |-> Pct(data["mod_EOL_collected_recycled"][y])]
            collected == [g \in Years |-> [y \in Years |-> RMul(D[g][y], coll[y])]]
        IN  /\ \A g \in Years : \A y \in Years :
                  /\ landfill_Collection[g][y] = RMul(D[g][y], RSub(One, coll[y]))
                  /\ EOL_Recycled[g][y] = RMul(collected[g][y], rec[y])
                  /\ EOL_NotRecycled_Landfilled[g][y] =
                         RMul(collected[g][y], RSub(One, rec[y]))
            /\ \A y \in Years :
                  /\ data["EoL_Collected"][y] = OverGenerations(collected, y)
                  /\ data["EoL_NotCollected"][y] =
                         OverGenerations(landfill_Collection, y)
                  /\ data["EoL_Recycled"][y] = OverGenerations(EOL_Recycled, y)
                  /\ data["EoL_NotRecycled_Landfilled"][y] =
                         OverGenerations(EOL_NotRecycled_Landfilled, y)

\* area of generations 0 and 1 is disposed in year 2, whose collection
\* efficiency is not that of their install years, and part of it is recycled
C24_Witness ==
    /\ pc = "mat"
    /\ Positive(EOL_Recycled[0][2])
    /\ Positive(EOL_Recycled[1][2])
    /\ data["mod_EOL_collection_eff"][2] # data["mod_EOL_collection_eff"][0]
    /\ data["mod_EOL_collection_eff"][2] # data["mod_EOL_collection_eff"][1]

\* the mass of material m in the areas f[g][y] of year y, the area of each
\* generation weighed with the mass per area of its install year
MassOfInstallYear(m, f, y) ==
    SumTo([g \in Years |-> RMul(f[g][y], material[m]["mat_massperm2"][g])],
          NumYears - 1)

\* C25 -- For every processed material and every year y, the not-collected
\* and the not-recycled module mass and the mass of the recycled modules (sent
\* to recycling or not) are the areas of the generations disposed in y, each
\* converted with the mass per area of the generation's install year.
C25_MassOfInstallYear ==
    \A m \in MaterialNames : Processed(m) =>
        \A y \in Years :
            LET dm == material[m]
            IN  /\ dm["mat_modules_NotCollected"][y] =
                       MassOfInstallYear(m, landfill_Collection, y)
                /\ dm["mat_modules_NotRecycled"][y] =
                       MassOfInstallYear(m, EOL_NotRecycled_Landfilled, y)
                /\ RAdd(dm["mat_EOL_sento_Recycling"][y],
                        dm["mat_EOL_NotRecycled_Landfilled"][y]) =
                       MassOfInstallYear(m, EOL_Recycled, y)

\* glass has been processed; area of generation 0 is disposed in year 1 in
\* all three flows, and the mass per area of year 1 is not that of year 0
C25_Witness ==
    /\ Processed("glass")
    /\ material["glass"]["mat_massperm2"][0] # material["glass"]["mat_massperm2"][1]
    /\ Positive(material["glass"]["mat_massperm2"][0])
    /\ Positive(landfill_Collection[0][1])
    /\ Positive(EOL_NotRecycled_Landfilled[0][1])
    /\ Positive(EOL_Recycled[0][1])

\* the material table with the sent-to-recycling rate of year y replaced
WithSentRate(dm, y, v) ==
    [dm EXCEPT !["mat_EOL_collected_Recycled"] = [@ EXCEPT ![y] = v]]

\* the share of the mass sent to recycling in year y that is recycled
RecycledShare(dm, y) ==
    RDiv(dm["mat_EOL_Recycled"][y], dm["mat_EOL_sento_Recycling"][y])

\* C26 as stated -- When the module cascade has run, the end-of-life network
\* of a material yields, in every year in which mass is sent to recycling,
\* the same ratio mat_EOL_Recycled / mat_EOL_sento_Recycling whether it is
\* computed on the material table as passed in or on that table with only
\* the year's sent-to-recycling rate changed.
C26_RecyclingEfficiencyIsOwnInput ==
    (pc = "mat" /\ todo = MaterialNames) =>
        \A m \in MaterialNames :
            \A asGiven \in {MaterialEOL(passed_in.material[m])} :
                \A y \in Years : \A v \in {RInt(25), RInt(100)} :
                    \A changed \in {MaterialEOL(WithSentRate(passed_in.material[m], y, v))} :
                        (/\ Positive(asGiven["mat_EOL_sento_Recycling"][y])
                         /\ Positive(changed["mat_EOL_sento_Recycling"][y]))
                        => RecycledShare(asGiven, y) = RecycledShare(changed, y)

\* C27 as stated -- After the generation loop, for every year y
\* Cumulative_Active_Area[y] is the initial area of the generations installed
\* in the years up to y less the Cumulative_Area_disposed of the years up to
\* y.
C27_ScenarioAreaBalance ==
    pc \in {"eol", "mat", "done"} =>
        \A y \in Years :
            data["Cumulative_Active_Area"][y] =
                RSub(SumTo(data["Area"], y),
                     SumTo(data["Cumulative_Area_disposed"], y))

\* C28 as stated -- When a generation has been computed, in every year after
\* its install year in which its CDF is exactly 0 it is recorded with its
\* initial area as active area and with no disposal.
C28_WarmUpCountedActive ==
    pc = "sum" =>
        \A y \in Years :
            (y > generation /\ cdf[y] = Zero) =>
                /\ activeareacount[y] = row["Area"]
                /\ areadisposed_failure[y] = Zero
                /\ areadisposed_degradation[y] = Zero

\* the tables passed in are complete and within the ranges of their columns
ValidInputs ==
    /\ ModuleColumns \subseteq DOMAIN passed_in.data
    /\ \A m \in MaterialNames : MaterialColumns \subseteq DOMAIN passed_in.material[m]
    /\ ~InvalidRateIn(passed_in.data, ModuleRateColumns)
    /\ \A m \in MaterialNames :
          ~InvalidRateIn(passed_in.material[m], MaterialRateColumns)
    /\ \A y \in Years :
          /\ RLeq(Zero, passed_in.data["new_Installed_Capacity_[MW]"][y])
          /\ InUnitInterval(passed_in.data["mod_Repairing"][y])
          /\ InUnitInterval(passed_in.data["mod_Repowering"][y])
          /\ \A m \in MaterialNames :
                /\ RLeq(Zero, passed_in.material[m]["mat_massperm2"][y])
                /\ Positive(passed_in.material[m]["material_MFG_eff"][y])

NonNegativeColumns(tbl, cols) ==
    \A c \in cols : \A y \in Years : RLeq(Zero, tbl[c][y])

\* C29 as stated -- After a call on valid inputs every derived area and
\* mass-flow column is >= 0 in every year and mat_Virgin_Stock is at most
\* mat_Manufacturing_Input.
C29_NonNegative ==
    (pc = "done" /\ ValidInputs) =>
        /\ NonNegativeColumns(data, DerivedModuleColumns)
        /\ \A m \in MaterialNames :
              /\ NonNegativeColumns(material[m], DerivedMaterialColumns)
              /\ \A y \in Years :
                    RLeq(material[m]["mat_Virgin_Stock"][y],
                         material[m]["mat_Manufacturing_Input"][y])

\* C30 -- When a second call of calculateMassFlow, made right after the
\* first on the same Simulation with nothing done to the tables in between,
\* has returned, the scenario table and the material tables have the columns
\* and the values the first call left, and the input columns have the values
\* passed in to the first call.
C30_Idempotent ==
    (calls >= 2 /\ pc = "done" /\ ~tables_changed) =>
        /\ data = first_call.data
        /\ material = first_call.material
        /\ \A c \in DOMAIN passed_in.data : data[c] = passed_in.data[c]
        /\ \A m \in MaterialNames : \A c \in DOMAIN passed_in.material[m] :
              material[m][c] = passed_in.material[m][c]

\* a second call has returned; the tables hold the cohort columns, nonzero
\* cumulative disposal and recycled glass of high quality
C30_Witness ==
    /\ calls = 2
    /\ pc = "done"
    /\ ~tables_changed
    /\ EOLColumns \subseteq DOMAIN data
    /\ \E y \in Years : Positive(data["Cumulative_Area_disposed"][y])
    /\ \E y \in Years : Positive(material["glass"][RecycledIntoHQColumn][y])

====
